---- MODULE Spec2Model ----
(***************************************************************************)
(* Model of the ELO matching system of main.go: the rating store (heroes), *)
(* the three matching pools with their mutex-guarded queues, the matching  *)
(* loop startMatching, addUserToPoll, and the detached gameRoom tasks with *)
(* the Elo update eloCal.  Every access to the rating store is one atomic  *)
(* step; the local computation that follows it belongs to the same step.   *)
(***************************************************************************)
EXTENDS Integers, Sequences, FiniteSets, TLC

\* ------------------------------------------------------------- constants
ELO_RESULT_WIN == 1
ELO_RESULT_LOSS == -1
ELO_RESULT_TIE == 0
ELO_RATING_DEFAULT == 1500

\* initMatchingPools builds three pools.
NumPools == 3
Pools == 1..NumPools

\* Bound of the model: the number of addUserToPoll calls in one behaviour.
MaxEnqueues == 3

\* The users of the model and the hero records of the store.  u1 and u2
\* have a hero record; u3's CurHeroID names no record, so db.First leaves
\* hero.ID at 0 for it.
Users == {"u1", "u2", "u3"}
CurHeroID == [u \in Users |-> CASE u = "u1" -> 1 [] u = "u2" -> 2 [] OTHER -> 3]
HeroIDs == {CurHeroID["u1"], CurHeroID["u2"]}

\* Ratings the hero records start with.
InitRatings == {1000, 1500}

NoUser == [ID |-> "none", AllowedDiff |-> 0]

\* No direct call of eloCal is in progress: main starts only the matching loops.
NoCal == [self |-> "none", opponentPt |-> 0, result |-> 0, K |-> 0, before |-> <<>>,
          reported |-> FALSE, pc |-> "none"]

VARIABLES
  heroes,         \* rating store: hero id -> CurPt
  MatchingQueue,  \* pool -> sequence of User copies [ID, AllowedDiff]
  mu,             \* pool -> "unlocked" | "locked" (held by startMatching)
  pc,             \* pool -> position of the pool's startMatching goroutine
  curQueue,       \* pool -> local curQueue of startMatching
  firstUser,      \* pool -> local firstUser of startMatching
  index,          \* pool -> range index (1-based)
  pt1,            \* pool -> first rating read by the running eloMatch
  pending,        \* addUserToPoll calls blocked in pool.mu.Lock(): <<user, pool>>
  enqueues,       \* number of addUserToPoll calls made so far
  poolsUsed,      \* number of pools addUserToPoll has been called on so far
  games,          \* the gameRoom goroutines started so far, in start order
  handed,         \* pool -> ids passed to gameRoom in the pool's running cycle
  cal             \* a direct call of computeK and eloCal: its arguments and locals

vars == <<heroes, MatchingQueue, mu, pc, curQueue, firstUser, index, pt1,
          pending, enqueues, poolsUsed, games, handed, cal>>

matcherVars == <<mu, pc, curQueue, firstUser, index, pt1, handed>>

\* ------------------------------------------------------------ rating store
\* getCurHeroPt without the hero.ID > 0 test: the CurPt of the zero-valued
\* Hero that a failed lookup leaves behind
GetCurHeroPtZeroValue(u) ==
  IF CurHeroID[u] \in DOMAIN heroes THEN heroes[CurHeroID[u]] ELSE 0

\* User.getCurHeroPt
GetCurHeroPt(u) ==
  IF CurHeroID[u] \in DOMAIN heroes THEN heroes[CurHeroID[u]] ELSE ELO_RATING_DEFAULT

\* User.updateCurHeroPt: the store after the call
UpdateCurHeroPt(u, newPt) ==
  IF CurHeroID[u] \in DOMAIN heroes
    THEN [heroes EXCEPT ![CurHeroID[u]] = newPt]
    ELSE heroes

\* abs
Abs(x) == IF x < 0 THEN -x ELSE x

\* eloMatch without abs: a lower-rated probe matches anyone above it.
EloMatchNoAbs(curPt, matchingPt, allowedDiff) == curPt - matchingPt <= allowedDiff

\* User.eloMatch on the two ratings it read
EloMatch(curPt, matchingPt, allowedDiff) == Abs(curPt - matchingPt) <= allowedDiff

\* int(28800.0 / float64(pt)), for pt > 0
Growth(pt) == 28800 \div pt

\* computeK with the thresholds themselves left out: > where the code has >=
ComputeKStrict(elo) == IF elo > 2400 THEN 16 ELSE IF elo > 2100 THEN 24 ELSE 36

\* User.computeK on the rating it read
ComputeK(elo) == IF elo >= 2400 THEN 16 ELSE IF elo >= 2100 THEN 24 ELSE 36

\* EloSteps(K)[m] is the least d with K * (1 - 1/(1 + 10^(d/400))) >= m in
\* float64, d = opponentPt - own rating: the places where the truncated
\* gain of a win steps up by one.
EloSteps(K) ==
  CASE K = 16 -> <<-470, -338, -254, -190, -136, -88, -43, 0, 44, 89, 137, 191,
                   255, 339, 471>>
    [] K = 24 -> <<-544, -416, -338, -279, -231, -190, -154, -120, -88, -58, -29,
                   0, 30, 59, 89, 121, 155, 191, 232, 280, 339, 417, 545>>
    [] K = 36 -> <<-617, -492, -416, -361, -316, -279, -246, -217, -190, -165,
                   -142, -120, -99, -78, -58, -38, -19, 0, 20, 39, 59, 79, 100,
                   121, 143, 166, 191, 218, 247, 280, 317, 362, 417, 493, 618>>

\* floor(K * (1 - expectedScore)) for expectedScore = 1/(1 + 10^(d/400))
WinGain(K, d) == Cardinality({m \in 1..Len(EloSteps(K)) : EloSteps(K)[m] <= d})

ValidResult(result) == result \in {ELO_RESULT_WIN, ELO_RESULT_TIE, ELO_RESULT_LOSS}

\* twice the actualScore of eloCal's switch
ActualScoreX2(result) ==
  CASE result = ELO_RESULT_WIN -> 2
    [] result = ELO_RESULT_TIE -> 1
    [] result = ELO_RESULT_LOSS -> 0

\* int(float64(selfPt) + K*(actualScore - expectedScore)), d the rating
\* difference the expected score was computed from; exact for ratings of
\* 100 to 3000 on both sides
NewPt(selfPt, K, d, result) ==
  selfPt + WinGain(K, d) - (K * (2 - ActualScoreX2(result))) \div 2

\* ------------------------------------------------------------------- Init
Init ==
  /\ heroes \in [HeroIDs -> InitRatings]
  /\ MatchingQueue = [p \in Pools |-> <<>>]
  /\ mu = [p \in Pools |-> "unlocked"]
  /\ pc = [p \in Pools |-> "sleep"]
  /\ curQueue = [p \in Pools |-> <<>>]
  /\ firstUser = [p \in Pools |-> NoUser]
  /\ index = [p \in Pools |-> 0]
  /\ pt1 = [p \in Pools |-> 0]
  /\ pending = {}
  /\ enqueues = 0
  /\ poolsUsed = 0
  /\ games = <<>>
  /\ handed = [p \in Pools |-> <<>>]
  /\ cal = NoCal

\* ---------------------------------------------------------- addUserToPoll
\* The User copy addUserToPoll appends: AllowedDiff was reset by line 167.
NewEntry(u) == [ID |-> u, AllowedDiff |-> 0]

\* The new entry put in front of the queue instead of behind it.
EnqueuedInFront(queue, u) == <<NewEntry(u)>> \o queue

\* The queue after the append of line 170.
Enqueued(queue, u) == Append(queue, NewEntry(u))

\* The pools are interchangeable (minPt and maxPt are never read), so the
\* callers of the model use them in order: pool p + 1 is first called on
\* after pool p.  Called(p) bounds the calls and records the pool.
Called(p) ==
  /\ enqueues < MaxEnqueues
  /\ p <= poolsUsed + 1
  /\ enqueues' = enqueues + 1
  /\ poolsUsed' = IF p > poolsUsed THEN p ELSE poolsUsed

\* addUserToPoll while the pool's mutex is free: lines 167-170 and the
\* deferred Unlock.  The critical section is the append alone, so the call
\* is one step.
AddUserToPoll(u, p) ==
  /\ Called(p)
  /\ mu[p] = "unlocked"
  /\ MatchingQueue' = [MatchingQueue EXCEPT ![p] = Enqueued(@, u)]
  /\ UNCHANGED <<heroes, pending, games>>
  /\ UNCHANGED matcherVars
  /\ UNCHANGED cal

\* addUserToPoll while startMatching holds the mutex: line 167, then the
\* call blocks in pool.mu.Lock().
AddBlocked(u, p) ==
  /\ Called(p)
  /\ mu[p] = "locked"
  /\ <<u, p>> \notin pending
  /\ pending' = pending \cup {<<u, p>>}
  /\ UNCHANGED <<heroes, MatchingQueue, games>>
  /\ UNCHANGED matcherVars
  /\ UNCHANGED cal

\* The blocked call gets the mutex: append, deferred Unlock.
AddResumed(u, p) ==
  /\ <<u, p>> \in pending
  /\ mu[p] = "unlocked"
  /\ MatchingQueue' = [MatchingQueue EXCEPT ![p] = Enqueued(@, u)]
  /\ pending' = pending \ {<<u, p>>}
  /\ UNCHANGED <<heroes, enqueues, poolsUsed, games>>
  /\ UNCHANGED matcherVars
  /\ UNCHANGED cal

\* ---------------------------------------------------------- startMatching
\* The element after the matched one is cut out instead of the matched one.
RemoveAfter(queue, i) == SubSeq(queue, 1, i) \o SubSeq(queue, i + 2, Len(queue))

\* append(curQueue[:index], curQueue[index+1:]...), index 1-based here
RemoveAt(queue, i) == SubSeq(queue, 1, i - 1) \o SubSeq(queue, i + 1, Len(queue))

\* The task `go gameRoom(firstUser, matchedUser)` starts; pool, allowedDiff,
\* read1 and read2 record the eloMatch call that let the pair through.
NewGame(p, first, matched, read1, read2) ==
  [user1 |-> first.ID, user2 |-> matched.ID, pc |-> "arg1",
   opponentPt |-> 0, K |-> 0, diff |-> 0, newPt |-> 0, pre1 |-> 0,
   pool |-> p, allowedDiff |-> first.AllowedDiff, read1 |-> read1, read2 |-> read2]

\* The mutex after Lock (line 176) and after Unlock (line 192); NotReleased
\* is a cycle that ends without the Unlock.
Acquired(p) == [mu EXCEPT ![p] = "locked"]
NotReleased(p) == mu
Released(p) == [mu EXCEPT ![p] = "unlocked"]

\* Lines 176-180: Lock, snapshot, length test, firstUser, reslice.
MLock(p) ==
  /\ pc[p] = "sleep"
  /\ mu[p] = "unlocked"
  /\ Len(MatchingQueue[p]) >= 2
  /\ mu' = Acquired(p)
  /\ firstUser' = [firstUser EXCEPT ![p] = Head(MatchingQueue[p])]
  /\ curQueue' = [curQueue EXCEPT ![p] = Tail(MatchingQueue[p])]
  /\ index' = [index EXCEPT ![p] = 1]
  /\ pc' = [pc EXCEPT ![p] = "match1"]
  /\ UNCHANGED cal
  /\ UNCHANGED <<heroes, MatchingQueue, pt1, pending, enqueues, poolsUsed, games, handed>>

\* Lines 176-178 and 191-193 with fewer than two queued: Lock, snapshot,
\* write the snapshot back, Unlock, Sleep.  Nothing else runs in between
\* that reads what the cycle writes, so the cycle is one step.
MIdle(p) ==
  /\ pc[p] = "sleep"
  /\ mu[p] = "unlocked"
  /\ Len(MatchingQueue[p]) < 2
  /\ LET snapshot == MatchingQueue[p]
     IN MatchingQueue' = [MatchingQueue EXCEPT ![p] = snapshot]
  /\ mu' = Released(p)
  /\ UNCHANGED cal
  /\ UNCHANGED <<heroes, pc, curQueue, firstUser, index, pt1, pending, enqueues,
                 poolsUsed, games, handed>>

\* Line 199, first read of eloMatch: curUser.getCurHeroPt().
MRead1(p) ==
  /\ pc[p] = "match1"
  /\ pt1' = [pt1 EXCEPT ![p] = GetCurHeroPt(firstUser[p].ID)]
  /\ pc' = [pc EXCEPT ![p] = "match2"]
  /\ UNCHANGED cal
  /\ UNCHANGED <<heroes, MatchingQueue, mu, curQueue, firstUser, index, pending,
                 enqueues, poolsUsed, games, handed>>

\* The range loop without its break: after a match the scan goes on with
\* the competitor that moved into the matched one's place.
MRead2NoBreak(p) ==
  /\ pc[p] = "match2"
  /\ LET matchedUser == curQueue[p][index[p]]
         pt2 == GetCurHeroPt(matchedUser.ID)
     IN IF EloMatch(pt1[p], pt2, firstUser[p].AllowedDiff)
          THEN /\ curQueue' = [curQueue EXCEPT ![p] = RemoveAt(@, index[p])]
               /\ games' = Append(games, NewGame(p, firstUser[p], matchedUser, pt1[p], pt2))
               /\ handed' = [handed EXCEPT ![p] = <<firstUser[p].ID, matchedUser.ID>>]
               /\ pc' = [pc EXCEPT ![p] =
                           IF index[p] <= Len(curQueue[p]) - 1 THEN "match1" ELSE "grow"]
               /\ UNCHANGED index
          ELSE /\ index' = [index EXCEPT ![p] = @ + 1]
               /\ pc' = [pc EXCEPT ![p] =
                           IF index[p] + 1 <= Len(curQueue[p]) THEN "match1" ELSE "grow"]
               /\ UNCHANGED <<curQueue, games, handed>>
  /\ UNCHANGED cal
  /\ UNCHANGED <<heroes, MatchingQueue, mu, firstUser, pt1, pending, enqueues, poolsUsed>>

\* Lines 199-200, second read of eloMatch and the comparison; on a match
\* lines 183-185, otherwise the next iteration of the range loop.
MRead2(p) ==
  /\ pc[p] = "match2"
  /\ LET matchedUser == curQueue[p][index[p]]
         pt2 == GetCurHeroPt(matchedUser.ID)
     IN IF EloMatch(pt1[p], pt2, firstUser[p].AllowedDiff)
          THEN /\ curQueue' = [curQueue EXCEPT ![p] = RemoveAt(@, index[p])]
               /\ games' = Append(games, NewGame(p, firstUser[p], matchedUser, pt1[p], pt2))
               /\ handed' = [handed EXCEPT ![p] = <<firstUser[p].ID, matchedUser.ID>>]
               /\ pc' = [pc EXCEPT ![p] = "grow"]
               /\ UNCHANGED index
          ELSE /\ index' = [index EXCEPT ![p] = @ + 1]
               /\ pc' = [pc EXCEPT ![p] =
                           IF index[p] + 1 <= Len(curQueue[p]) THEN "match1" ELSE "grow"]
               /\ UNCHANGED <<curQueue, games, handed>>
  /\ UNCHANGED cal
  /\ UNCHANGED <<heroes, MatchingQueue, mu, firstUser, pt1, pending, enqueues, poolsUsed>>

\* Line 188 applied to the competitors left in the queue instead of the
\* local firstUser, and with the sign reversed.
MGrowShrinksQueued(p) ==
  /\ pc[p] = "grow"
  /\ curQueue' = [curQueue EXCEPT ![p] =
                    [k \in 1..Len(@) |->
                       [@[k] EXCEPT !.AllowedDiff =
                                      @ - Growth(GetCurHeroPt(firstUser[p].ID))]]]
  /\ pc' = [pc EXCEPT ![p] = "write"]
  /\ UNCHANGED cal
  /\ UNCHANGED <<heroes, MatchingQueue, mu, firstUser, index, pt1, pending, enqueues,
                 poolsUsed, games, handed>>

\* Line 188: the local firstUser's AllowedDiff grows.
MGrow(p) ==
  /\ pc[p] = "grow"
  /\ firstUser' = [firstUser EXCEPT
                     ![p].AllowedDiff = @ + Growth(GetCurHeroPt(firstUser[p].ID))]
  /\ pc' = [pc EXCEPT ![p] = "write"]
  /\ UNCHANGED cal
  /\ UNCHANGED <<heroes, MatchingQueue, mu, curQueue, index, pt1, pending, enqueues,
                 poolsUsed, games, handed>>

\* Lines 191-193: write curQueue back, Unlock, Sleep.  The locals die with
\* the iteration.
MWrite(p) ==
  /\ pc[p] = "write"
  /\ MatchingQueue' = [MatchingQueue EXCEPT ![p] = curQueue[p]]
  /\ mu' = Released(p)
  /\ pc' = [pc EXCEPT ![p] = "sleep"]
  /\ curQueue' = [curQueue EXCEPT ![p] = <<>>]
  /\ firstUser' = [firstUser EXCEPT ![p] = NoUser]
  /\ index' = [index EXCEPT ![p] = 0]
  /\ pt1' = [pt1 EXCEPT ![p] = 0]
  /\ handed' = [handed EXCEPT ![p] = <<>>]
  /\ UNCHANGED cal
  /\ UNCHANGED <<heroes, pending, enqueues, poolsUsed, games>>

\* --------------------------------------------------------------- gameRoom
\* The side of the game whose eloCal is running, its opponent and result.
\* gameRoom passing ELO_RESULT_WIN to both eloCal calls
ResultWinBoth(g) == ELO_RESULT_WIN

Self(g) == IF g.pc \in {"arg1", "k1", "exp1", "new1", "upd1"} THEN g.user1 ELSE g.user2
Opponent(g) == IF Self(g) = g.user1 THEN g.user2 ELSE g.user1
Result(g) == IF Self(g) = g.user1 THEN ELO_RESULT_WIN ELSE ELO_RESULT_LOSS

\* Lines 239/240: the argument user.getCurHeroPt() of the eloCal call.  pre1
\* records user1's stored rating when the task starts.
GArg(i) ==
  /\ i \in DOMAIN games
  /\ games[i].pc \in {"arg1", "arg2"}
  /\ LET g == games[i]
     IN games' = [games EXCEPT ![i] =
          [g EXCEPT !.opponentPt = GetCurHeroPt(Opponent(g)),
                    !.pre1 = IF g.pc = "arg1" THEN GetCurHeroPt(g.user1) ELSE @,
                    !.pc = IF g.pc = "arg1" THEN "k1" ELSE "k2"]]
  /\ UNCHANGED <<heroes, MatchingQueue, pending, enqueues, poolsUsed>>
  /\ UNCHANGED matcherVars
  /\ UNCHANGED cal

\* Line 217: K := curUser.computeK()
GComputeK(i) ==
  /\ i \in DOMAIN games
  /\ games[i].pc \in {"k1", "k2"}
  /\ LET g == games[i]
     IN games' = [games EXCEPT ![i] =
          [g EXCEPT !.K = ComputeK(GetCurHeroPt(Self(g))),
                    !.pc = IF g.pc = "k1" THEN "exp1" ELSE "exp2"]]
  /\ UNCHANGED <<heroes, MatchingQueue, pending, enqueues, poolsUsed>>
  /\ UNCHANGED matcherVars
  /\ UNCHANGED cal

\* Line 218: expectedScore, from opponentPt - curUser.getCurHeroPt(); the
\* result is valid, so the switch of lines 221-231 falls through to 233.
GExpected(i) ==
  /\ i \in DOMAIN games
  /\ games[i].pc \in {"exp1", "exp2"}
  /\ LET g == games[i]
     IN /\ ValidResult(Result(g))
        /\ games' = [games EXCEPT ![i] =
             [g EXCEPT !.diff = g.opponentPt - GetCurHeroPt(Self(g)),
                       !.pc = IF g.pc = "exp1" THEN "new1" ELSE "new2"]]
  /\ UNCHANGED <<heroes, MatchingQueue, pending, enqueues, poolsUsed>>
  /\ UNCHANGED matcherVars
  /\ UNCHANGED cal

\* Line 233: newPt, from a fresh curUser.getCurHeroPt()
GNewPt(i) ==
  /\ i \in DOMAIN games
  /\ games[i].pc \in {"new1", "new2"}
  /\ LET g == games[i]
     IN games' = [games EXCEPT ![i] =
          [g EXCEPT !.newPt = NewPt(GetCurHeroPt(Self(g)), g.K, g.diff, Result(g)),
                    !.pc = IF g.pc = "new1" THEN "upd1" ELSE "upd2"]]
  /\ UNCHANGED <<heroes, MatchingQueue, pending, enqueues, poolsUsed>>
  /\ UNCHANGED matcherVars
  /\ UNCHANGED cal

\* Line 234: curUser.updateCurHeroPt(int(newPt))
GUpdate(i) ==
  /\ i \in DOMAIN games
  /\ games[i].pc \in {"upd1", "upd2"}
  /\ LET g == games[i]
     IN /\ heroes' = UpdateCurHeroPt(Self(g), g.newPt)
        /\ games' = [games EXCEPT ![i] =
             IF g.pc = "upd1"
               THEN [g EXCEPT !.pc = "arg2"]
               ELSE [g EXCEPT !.pc = "done", !.K = 0, !.diff = 0, !.newPt = 0]]
  /\ UNCHANGED <<MatchingQueue, pending, enqueues, poolsUsed>>
  /\ UNCHANGED matcherVars
  /\ UNCHANGED cal

\* ------------------------------------------------------------------- Next
MaxGames == MaxEnqueues \div 2

Next ==
  \/ \E u \in Users, p \in Pools : AddUserToPoll(u, p)
  \/ \E u \in Users, p \in Pools : AddBlocked(u, p)
  \/ \E u \in Users, p \in Pools : AddResumed(u, p)
  \/ \E p \in Pools : MLock(p)
  \/ \E p \in Pools : MIdle(p)
  \/ \E p \in Pools : MRead1(p)
  \/ \E p \in Pools : MRead2(p)
  \/ \E p \in Pools : MGrow(p)
  \/ \E p \in Pools : MWrite(p)
  \/ \E i \in 1..MaxGames : GArg(i)
  \/ \E i \in 1..MaxGames : GComputeK(i)
  \/ \E i \in 1..MaxGames : GExpected(i)
  \/ \E i \in 1..MaxGames : GNewPt(i)
  \/ \E i \in 1..MaxGames : GUpdate(i)

Spec == Init /\ [][Next]_vars

\* Goroutines that can run are run; sync.Mutex hands the lock to a waiter
\* that has waited long (starvation mode), and the loop sleeps a second
\* between cycles, so a blocked Lock is served.
FairSpec ==
  /\ Spec
  /\ \A p \in Pools :
       /\ WF_vars(MLock(p))
       /\ WF_vars(MRead1(p))
       /\ WF_vars(MRead2(p))
       /\ WF_vars(MGrow(p))
       /\ WF_vars(MWrite(p))
  /\ \A i \in 1..MaxGames :
       WF_vars(GArg(i) \/ GComputeK(i) \/ GExpected(i) \/ GNewPt(i) \/ GUpdate(i))
  /\ \A u \in Users, p \in Pools : SF_vars(AddResumed(u, p))

\* ------------------------------------ computeK and eloCal, called directly
\* The ratings a direct call is made on: the default and both sides of the
\* two thresholds of computeK.  The results it is made with: the three
\* outcomes and two values that are none of them.
CalRatings == {ELO_RATING_DEFAULT, 2099, 2100, 2399, 2400}
CalResults == {-2, ELO_RESULT_LOSS, ELO_RESULT_TIE, ELO_RESULT_WIN, 2}

\* getCurHeroPt and updateCurHeroPt on a given store
PtIn(store, u) ==
  IF CurHeroID[u] \in DOMAIN store THEN store[CurHeroID[u]] ELSE ELO_RATING_DEFAULT
UpdatedIn(store, u, newPt) ==
  IF CurHeroID[u] \in DOMAIN store
    THEN [store EXCEPT ![CurHeroID[u]] = newPt]
    ELSE store

\* eloCal run to completion on a given store: the store after
\* curUser.eloCal(opponentPt, result).  The default branch of the switch
\* returns before line 233.
EloCalIn(store, u, opponentPt, result) ==
  IF ValidResult(result)
    THEN LET K == ComputeK(PtIn(store, u))
             d == opponentPt - PtIn(store, u)
         IN UpdatedIn(store, u, NewPt(PtIn(store, u), K, d, result))
    ELSE store

\* The switch without the return of its default branch: actualScore keeps
\* its zero value and an invalid result is scored like a loss.
EloCalScoresInvalid(u, opponentPt, result) ==
  EloCalIn(heroes, u, opponentPt,
           IF ValidResult(result) THEN result ELSE ELO_RESULT_LOSS)

\* curUser.eloCal(opponentPt, result) on the rating store
EloCal(u, opponentPt, result) == EloCalIn(heroes, u, opponentPt, result)

\* Line 229: fmt.Println("Invalid result")
Reported(result) == ~ValidResult(result)

\* A caller holds a user and is about to call computeK and then eloCal on
\* it; the pools are idle.
CalInit ==
  /\ heroes \in [HeroIDs -> CalRatings]
  /\ \E u \in Users, o \in CalRatings, r \in CalResults :
       cal = [self |-> u, opponentPt |-> o, result |-> r, K |-> 0, before |-> heroes,
              reported |-> FALSE, pc |-> "computeK"]
  /\ MatchingQueue = [p \in Pools |-> <<>>]
  /\ mu = [p \in Pools |-> "unlocked"]
  /\ pc = [p \in Pools |-> "sleep"]
  /\ curQueue = [p \in Pools |-> <<>>]
  /\ firstUser = [p \in Pools |-> NoUser]
  /\ index = [p \in Pools |-> 0]
  /\ pt1 = [p \in Pools |-> 0]
  /\ pending = {}
  /\ enqueues = 0
  /\ poolsUsed = 0
  /\ games = <<>>
  /\ handed = [p \in Pools |-> <<>>]

\* K := curUser.computeK()
CalComputeK ==
  /\ cal.pc = "computeK"
  /\ cal' = [cal EXCEPT !.K = ComputeK(GetCurHeroPt(cal.self)), !.pc = "eloCal"]
  /\ UNCHANGED <<heroes, MatchingQueue, pending, enqueues, poolsUsed, games>>
  /\ UNCHANGED matcherVars

\* curUser.eloCal(opponentPt, result), run to completion
CalEloCal ==
  /\ cal.pc = "eloCal"
  /\ heroes' = EloCal(cal.self, cal.opponentPt, cal.result)
  /\ cal' = [cal EXCEPT !.reported = Reported(cal.result), !.pc = "returned"]
  /\ UNCHANGED <<MatchingQueue, pending, enqueues, poolsUsed, games>>
  /\ UNCHANGED matcherVars

CalNext ==
  \/ CalComputeK
  \/ CalEloCal

CalSpec == CalInit /\ [][CalNext]_vars

\* ----------------------------------------- gameRoom tasks running together
\* gameRoom run to completion on a given store: the store after
\* gameRoom(a, b), the second eloCal reading what the first one stored.
GameRoomIn(store, a, b) ==
  LET afterFirst == EloCalIn(store, a, PtIn(store, b), ELO_RESULT_WIN)
  IN EloCalIn(afterFirst, b, PtIn(afterFirst, a), ELO_RESULT_LOSS)

\* The store as createDefaultHeroes fills it: every hero at the default.
DefaultHeroes == [h \in HeroIDs |-> ELO_RATING_DEFAULT]

\* Two pools have each dispatched a pair and written their queue back; the
\* two gameRoom goroutines have been started and neither has run yet.  All
\* ratings are the default, so that any two users could be paired.
GameInit ==
  /\ heroes = DefaultHeroes
  /\ \E a \in Users, b \in Users, c \in Users, d \in Users :
       games = <<NewGame(1, NewEntry(a), NewEntry(b), PtIn(DefaultHeroes, a),
                         PtIn(DefaultHeroes, b)),
                 NewGame(2, NewEntry(c), NewEntry(d), PtIn(DefaultHeroes, c),
                         PtIn(DefaultHeroes, d))>>
  /\ MatchingQueue = [p \in Pools |-> <<>>]
  /\ mu = [p \in Pools |-> "unlocked"]
  /\ pc = [p \in Pools |-> "sleep"]
  /\ curQueue = [p \in Pools |-> <<>>]
  /\ firstUser = [p \in Pools |-> NoUser]
  /\ index = [p \in Pools |-> 0]
  /\ pt1 = [p \in Pools |-> 0]
  /\ pending = {}
  /\ enqueues = 4
  /\ poolsUsed = 2
  /\ handed = [p \in Pools |-> <<>>]
  /\ cal = NoCal

\* The steps of the started gameRoom goroutines, in any interleaving.
GameNext ==
  \/ \E i \in DOMAIN games : GArg(i)
  \/ \E i \in DOMAIN games : GComputeK(i)
  \/ \E i \in DOMAIN games : GExpected(i)
  \/ \E i \in DOMAIN games : GNewPt(i)
  \/ \E i \in DOMAIN games : GUpdate(i)

GameSpec == GameInit /\ [][GameNext]_vars

\* ---------------------------------------------------------------- helpers
\* Number of entries of a queue that are copies of user u.
Count(queue, u) == Cardinality({i \in 1..Len(queue) : queue[i].ID = u})

\* Number of times id u occurs in a sequence of ids.
CountIds(ids, u) == Cardinality({i \in 1..Len(ids) : ids[i] = u})

\* A cycle of pool p that got past the length test and found no match is
\* at its write-back.
UnmatchedProbe(p) == pc[p] = "write" /\ handed[p] = <<>>

\* ----------------------------------------------------------------- claims
\* C1: a matching cycle that dispatches no pair leaves the pool's queue as
\* it was: the cycle with fewer than two queued changes nothing, and the
\* cycle whose probe found no competitor within its allowed difference
\* writes back the queue it started from, probe included.
C1_NoDispatchKeepsQueue ==
  [][\A p \in Pools :
       (MIdle(p) \/ (MWrite(p) /\ handed[p] = <<>>))
         => MatchingQueue'[p] = MatchingQueue[p]]_vars

\* C2: every competitor a cycle removes from the queue was handed to exactly
\* one gameRoom invocation of that cycle, and no other step removes one: the
\* entries of user u that a step takes out of pool p's queue are as many as
\* the cycle handed to gameRoom.
C2_RemovedIffHanded ==
  [][\A p \in Pools, u \in Users :
       LET removed == Count(MatchingQueue[p], u) - Count(MatchingQueue'[p], u)
       IN IF MWrite(p) THEN removed = CountIds(handed[p], u) ELSE removed <= 0]_vars

\* C3: each cycle in which the probe goes unmatched adds floor(28800 / r) to
\* the allowed difference stored for it in the queue (r its rating), so that
\* after N such cycles, starting from 0, the queue holds N * floor(28800 / r):
\* the write-back of an unmatched cycle leaves the probe at the head with its
\* stored allowed difference grown by one term.
C3_AllowedDiffGrowth ==
  [][\A p \in Pools :
       (MWrite(p) /\ UnmatchedProbe(p) /\ firstUser[p] # NoUser)
         => /\ MatchingQueue'[p] # <<>>
            /\ Head(MatchingQueue'[p]).ID = firstUser[p].ID
            /\ Head(MatchingQueue'[p]).AllowedDiff =
                 Head(MatchingQueue[p]).AllowedDiff
                   + Growth(GetCurHeroPt(firstUser[p].ID))]_vars

\* C4: two competitors that wait alone in a pool, with no arrival to come,
\* are eventually dispatched together: the next gameRoom task is theirs.
C4_PairEventuallyDispatched ==
  \A p \in Pools, a \in Users, b \in Users, n \in 0..MaxGames :
    (/\ pc[p] = "sleep"
     /\ Len(MatchingQueue[p]) = 2
     /\ MatchingQueue[p][1].ID = a
     /\ MatchingQueue[p][2].ID = b
     /\ GetCurHeroPt(a) > 0 /\ GetCurHeroPt(b) > 0
     /\ enqueues = MaxEnqueues /\ pending = {}
     /\ Len(games) = n)
    ~> (\E i \in DOMAIN games :
          /\ i > n
          /\ games[i].pool = p
          /\ {games[i].user1, games[i].user2} = {a, b})

\* C5: a pair is handed to gameRoom only if the two ratings eloMatch read in
\* that cycle differ by no more than the allowed difference of the probe,
\* which is the one stored at the head of the pool's queue; so two
\* competitors 500 apart are not matched at allowed difference 0.
C5_DispatchedWithinAllowedDiff ==
  /\ \A i \in DOMAIN games :
       Abs(games[i].read1 - games[i].read2) <= games[i].allowedDiff
  /\ \A p \in Pools :
       handed[p] # <<>> =>
         \E i \in DOMAIN games :
           /\ games[i].pool = p
           /\ <<games[i].user1, games[i].user2>> = handed[p]
           /\ games[i].user1 = Head(MatchingQueue[p]).ID
           /\ games[i].allowedDiff = Head(MatchingQueue[p]).AllowedDiff
           /\ Abs(games[i].read1 - games[i].read2) <= Head(MatchingQueue[p]).AllowedDiff

\* A cycle has just handed a pair to gameRoom.
C5_Witness == \E p \in Pools : handed[p] # <<>> /\ pc[p] = "grow"

\* C6: in gameRoom the eloCal of the second side gets the first side's
\* pre-match rating, the one stored when the task started, as opponentPt.
C6_OpponentPreMatchRating ==
  \A i \in DOMAIN games :
    games[i].pc \in {"k2", "exp2", "new2", "upd2", "done"}
      => games[i].opponentPt = games[i].pre1

\* C7: no competitor is queued more than once, within a pool or across pools.
C7_NoDuplicateInQueues ==
  \A u \in Users :
    /\ \A p \in Pools : Count(MatchingQueue[p], u) <= 1
    /\ \A p \in Pools, q \in Pools :
         p # q => ~(Count(MatchingQueue[p], u) > 0 /\ Count(MatchingQueue[q], u) > 0)

\* C8: the matching loop is never at a Rating Store call (the getCurHeroPt
\* calls of eloMatch and of line 188) while it holds the pool's lock.
C8_NoStoreAccessUnderLock ==
  \A p \in Pools : pc[p] \in {"match1", "match2", "grow"} => mu[p] # "locked"

\* C9: the matching loop holds the pool's lock exactly while it is inside a
\* cycle, never while it sleeps, and an addUserToPoll call blocked on the
\* lock eventually gets it.
C9_LockReleasedAndAcquired ==
  /\ [](\A p \in Pools : mu[p] = "locked" <=> pc[p] # "sleep")
  /\ \A u \in Users, p \in Pools : (<<u, p>> \in pending) ~> (<<u, p>> \notin pending)

\* A call is blocked on the lock of a pool whose cycle is about to end.
C9_Witness == \E u \in Users, p \in Pools : <<u, p>> \in pending /\ pc[p] = "write"

\* C10: a step of addUserToPoll(u, p) makes pool p's queue the previous
\* queue with u at the tail with allowed difference 0, and leaves the
\* entries already queued and the other pools' queues as they were.
C10_EnqueueAppendsAtTail ==
  [][\A u \in Users, p \in Pools :
       (AddUserToPoll(u, p) \/ AddResumed(u, p))
         => /\ MatchingQueue'[p] = Append(MatchingQueue[p], [ID |-> u, AllowedDiff |-> 0])
            /\ \A q \in Pools \ {p} : MatchingQueue'[q] = MatchingQueue[q]]_vars

\* Two pools hold competitors, one of them more than one.
C10_Witness ==
  \E p \in Pools, q \in Pools :
    /\ p # q
    /\ Len(MatchingQueue[p]) >= 2
    /\ Len(MatchingQueue[q]) >= 1
    /\ MatchingQueue[p][Len(MatchingQueue[p])].AllowedDiff = 0

\* The queue positions that hold a copy of user u.
QueuedCopies(queues, u) ==
  Cardinality({x \in UNION {{<<p, i>> : i \in 1..Len(queues[p])} : p \in Pools} :
                 queues[x[1]][x[2]].ID = u})

\* The sides of the gameRoom tasks started so far that are user u.
DispatchedSides(gs, u) ==
  Cardinality({i \in DOMAIN gs : gs[i].user1 = u})
    + Cardinality({i \in DOMAIN gs : gs[i].user2 = u})

\* The copies of u handed to gameRoom by cycles that have not written the
\* queue back yet: still in MatchingQueue and already dispatched.
HandedCopies(hd, u) ==
  Cardinality({x \in UNION {{<<p, i>> : i \in 1..Len(hd[p])} : p \in Pools} :
                 hd[x[1]][x[2]] = u})

\* The addUserToPoll calls for u that wait for a pool's lock.
WaitingCalls(pend, u) == Cardinality({x \in pend : x[1] = u})

\* The copies of u that are queued, about to be queued, or dispatched.
Accounted(queues, hd, gs, pend, u) ==
  QueuedCopies(queues, u) - HandedCopies(hd, u) + DispatchedSides(gs, u)
    + WaitingCalls(pend, u)

\* C11: whatever the interleaving of addUserToPoll calls with a matching
\* cycle, no enqueued competitor is lost: no step takes a competitor out of
\* the queues unless it was handed to gameRoom.
C11_NoEnqueuedCompetitorLost ==
  [][\A u \in Users :
       Accounted(MatchingQueue', handed', games', pending', u)
         >= Accounted(MatchingQueue, handed, games, pending, u)]_vars

C13_InvalidResultNotScored ==
  (cal.pc = "returned"
     /\ cal.result \notin {ELO_RESULT_WIN, ELO_RESULT_TIE, ELO_RESULT_LOSS}) =>
    /\ heroes = cal.before
    /\ cal.reported

\* eloCal has returned from a call with result 2 on a user that has a record.
C13_Witness ==
  /\ cal.pc = "returned"
  /\ cal.result = 2
  /\ CurHeroID[cal.self] \in DOMAIN heroes
  /\ cal.reported

\* C14: computeK is a step function of the competitor's rating only: 16 for
\* 2400 and above, 24 for 2100 to 2399, 36 below 2100; the ratings 2099,
\* 2100, 2399 and 2400 give 36, 24, 24 and 16.
C14_ComputeKSteps ==
  cal.pc = "eloCal" =>
    LET elo == GetCurHeroPt(cal.self)
    IN /\ elo >= 2400 => cal.K = 16
       /\ (elo >= 2100 /\ elo <= 2399) => cal.K = 24
       /\ elo < 2100 => cal.K = 36
       /\ elo = 2099 => cal.K = 36
       /\ elo = 2100 => cal.K = 24
       /\ elo = 2399 => cal.K = 24
       /\ elo = 2400 => cal.K = 16

\* computeK has returned 24 for a competitor rated exactly 2100.
C14_Witness ==
  /\ cal.pc = "eloCal"
  /\ GetCurHeroPt(cal.self) = 2100
  /\ cal.K = 24

\* C15: a competitor without a record in the rating store is rated 1500 by
\* the matching loop and by the scoring: eloMatch read 1500 for it when it
\* was matched, eloCal is passed 1500 as its rating, and the match is still
\* resolved for its opponent, who had to be rated 1500 to be paired with it
\* and ends at 1518 after the win or 1482 after the loss.
C15_MissingRecordRatedDefault ==
  \A u \in Users :
    CurHeroID[u] \notin DOMAIN heroes =>
      /\ GetCurHeroPt(u) = ELO_RATING_DEFAULT
      /\ \A i \in DOMAIN games :
           LET g == games[i]
           IN /\ g.user1 = u => g.read1 = ELO_RATING_DEFAULT
              /\ g.user2 = u => g.read2 = ELO_RATING_DEFAULT
              /\ (g.user2 = u /\ g.pc \in {"k1", "exp1", "new1", "upd1"}) =>
                   g.opponentPt = ELO_RATING_DEFAULT
              /\ (g.user1 = u /\ g.pc \in {"k2", "exp2", "new2", "upd2", "done"}) =>
                   g.opponentPt = ELO_RATING_DEFAULT
              /\ (Len(games) = 1 /\ g.pc = "done" /\ g.user2 = u
                    /\ CurHeroID[g.user1] \in DOMAIN heroes) =>
                   heroes[CurHeroID[g.user1]] = ELO_RATING_DEFAULT + 18
              /\ (Len(games) = 1 /\ g.pc = "done" /\ g.user1 = u
                    /\ CurHeroID[g.user2] \in DOMAIN heroes) =>
                   heroes[CurHeroID[g.user2]] = ELO_RATING_DEFAULT - 18

\* A task that paired a competitor that has a record with one that has none
\* is done, and the one with the record has its new rating.
C15_Witness ==
  \E i \in DOMAIN games :
    /\ games[i].pc = "done"
    /\ CurHeroID[games[i].user1] \in DOMAIN heroes
    /\ CurHeroID[games[i].user2] \notin DOMAIN heroes
    /\ heroes[CurHeroID[games[i].user1]] = ELO_RATING_DEFAULT + 18

\* Every entry of the queue new is an entry of the queue old, in the same
\* order, with an allowed difference at least as large.  A step adds one
\* entry at the tail or takes out up to two (the head and the matched one).
StillQueuedNotNarrowed(old, new) ==
  IF Len(new) > Len(old)
    THEN \A k \in 1..Len(old) :
           new[k].ID = old[k].ID /\ new[k].AllowedDiff >= old[k].AllowedDiff
    ELSE \E f \in [1..Len(new) -> 0..2] :
           \A k \in 1..Len(new) :
             /\ k + f[k] <= Len(old)
             /\ k > 1 => f[k] >= f[k - 1]
             /\ new[k].ID = old[k + f[k]].ID
             /\ new[k].AllowedDiff >= old[k + f[k]].AllowedDiff

\* C16: while a competitor remains queued and unmatched, its allowed
\* difference never decreases, from one matching cycle to the next or on
\* any step in between.
C16_AllowedDiffNeverDecreases ==
  [][\A p \in Pools : StillQueuedNotNarrowed(MatchingQueue[p], MatchingQueue'[p])]_vars

\* Competitors were enqueued on one pool, none was dispatched, fewer are
\* queued than were enqueued: a cycle has run and written back the ones
\* that are still queued.
C16_Witness ==
  \E p \in Pools :
    /\ pc[p] = "sleep"
    /\ poolsUsed = 1
    /\ pending = {}
    /\ games = <<>>
    /\ Len(MatchingQueue[p]) >= 1
    /\ Len(MatchingQueue[p]) < enqueues
    /\ \A k \in 1..Len(MatchingQueue[p]) : MatchingQueue[p][k].AllowedDiff >= 0

\* C17: a match between two competitors both rated 1500, the first winning
\* and the second losing, is scored with K = 36 and leaves the winner's
\* stored rating at 1518 and the loser's at 1482.
C17_EqualRatingsWinLoss ==
  \A i \in DOMAIN games :
    LET g == games[i]
    IN (/\ Len(games) = 1
        /\ g.user1 # g.user2
        /\ CurHeroID[g.user1] \in DOMAIN heroes
        /\ CurHeroID[g.user2] \in DOMAIN heroes
        /\ g.read1 = 1500
        /\ g.read2 = 1500) =>
         /\ g.pc \in {"exp1", "new1", "upd1", "exp2", "new2", "upd2"} => g.K = 36
         /\ g.pc = "done" =>
              /\ heroes[CurHeroID[g.user1]] = 1518
              /\ heroes[CurHeroID[g.user2]] = 1482

\* The match of two competitors rated 1500 has been resolved.
C17_Witness ==
  /\ Len(games) = 1
  /\ games[1].pc = "done"
  /\ games[1].read1 = 1500
  /\ games[1].read2 = 1500
  /\ games[1].user1 # games[1].user2
  /\ CurHeroID[games[1].user1] \in DOMAIN heroes
  /\ CurHeroID[games[1].user2] \in DOMAIN heroes
  /\ heroes[CurHeroID[games[1].user1]] = 1518

\* C18: when two gameRoom tasks that involve the same competitor (each on
\* two different competitors) run concurrently, that competitor's final
\* stored rating is the one that
\* running the two tasks one after the other, in one of the two orders,
\* would store: no update of eloCal's read-compute-write is lost.
C18_ConcurrentGamesSerializable ==
  (/\ Len(games) = 2
   /\ \A i \in DOMAIN games : games[i].pc = "done" /\ games[i].user1 # games[i].user2) =>
    LET first == games[1]
        second == games[2]
        firstThenSecond ==
          GameRoomIn(GameRoomIn(DefaultHeroes, first.user1, first.user2),
                     second.user1, second.user2)
        secondThenFirst ==
          GameRoomIn(GameRoomIn(DefaultHeroes, second.user1, second.user2),
                     first.user1, first.user2)
    IN \A u \in Users :
         (/\ u \in {first.user1, first.user2}
          /\ u \in {second.user1, second.user2}
          /\ CurHeroID[u] \in DOMAIN heroes) =>
           heroes[CurHeroID[u]] \in {firstThenSecond[CurHeroID[u]],
                                     secondThenFirst[CurHeroID[u]]}

\* C19: the two competitors of every dispatched pair are distinct: gameRoom
\* is never started with the same competitor on both sides.
C19_DispatchedPairDistinct ==
  \A i \in DOMAIN games : games[i].user1 # games[i].user2

\* C20: each matching cycle dispatches at most one pair, and the pair
\* contains the competitor that was at the head of the queue when the cycle
\* started; the competitors behind the head are never paired with each
\* other.  A step starts at most one gameRoom task; the pool that starts it
\* has not dispatched in its running cycle, is in its scan, leaves the scan
\* with the step, and passes the head of its queue as the first side and a
\* competitor from behind the head as the second.
C20_AtMostOnePairWithHead ==
  [][/\ Len(games') > Len(games) =>
          /\ Len(games') = Len(games) + 1
          /\ SubSeq(games', 1, Len(games)) = games
          /\ LET g == games'[Len(games')]
                 p == g.pool
             IN /\ pc[p] = "match2"
                /\ pc'[p] = "grow"
                /\ handed[p] = <<>>
                /\ handed'[p] = <<g.user1, g.user2>>
                /\ firstUser[p] = Head(MatchingQueue[p])
                /\ g.user1 = Head(MatchingQueue[p]).ID
                /\ \E j \in 2..Len(MatchingQueue[p]) : g.user2 = MatchingQueue[p][j].ID
     /\ \A p \in Pools :
          /\ pc[p] = "grow" => pc'[p] \in {"grow", "write"}
          /\ pc[p] = "write" => pc'[p] \in {"write", "sleep"}
          /\ (pc[p] # "sleep" /\ pc'[p] # "sleep") =>
               MatchingQueue'[p] = MatchingQueue[p]]_vars

\* A cycle on three queued competitors has dispatched the head with one of
\* the two behind it and is about to write back the other one.
C20_Witness ==
  \E p \in Pools :
    /\ pc[p] = "write"
    /\ Len(MatchingQueue[p]) = 3
    /\ handed[p] # <<>>
    /\ handed[p][1] = MatchingQueue[p][1].ID
    /\ Len(curQueue[p]) = 1
    /\ Len(games) = 1

====
